---- MODULE Spec2Model ----
(***************************************************************************)
(* Model of ML::host_buffer<T> (cuML/src/common/host_buffer.hpp): a RAII   *)
(* buffer over a stream-ordered host allocator.  One buffer object is      *)
(* followed from before its construction to after its destruction.  The    *)
(* allocator is a counting test double with an optional byte budget; each  *)
(* stream is a FIFO of submitted requests that execute later, in order.    *)
(***************************************************************************)
EXTENDS Integers, Sequences, FiniteSets, TLC

\* ---------------------------------------------------------------- bounds
MaxSize == 3          \* element counts passed to the constructor / resize
MaxAllocs == 2        \* allocate calls that succeed in one run
SizeofT == 4          \* sizeof(value_type) of the instantiation
Budget == 8           \* byte budget of the bounded allocator double

NullPtr == 0
DefaultStream == 0
Streams == {DefaultStream, 1}
Sizes == 0..MaxSize
Ptrs == 1..MaxAllocs
PtrsOrNull == 0..MaxAllocs
NoLimit == MaxAllocs * (MaxSize + 1) * (SizeofT + 1)

VARIABLES
    pc,            \* "init" | "alive" | "destroyed" | "ctor_threw"
    _size,         \* host_buffer::_size
    _capacity,     \* host_buffer::_capacity
    _data,         \* host_buffer::_data (NullPtr or a block id)
    mem,           \* block id -> its cells' values (<<>> once its free has executed)
    streamQ,       \* stream -> requests submitted and not yet executed
    allocBytes,    \* block id -> bytes asked for in its allocate call
    deallocCount,  \* block id -> number of deallocate calls that named it
    nextPtr,       \* next block id the allocator hands out
    budget,        \* bytes the allocator may have outstanding
    lastOp,        \* the operation that ran last: its name, its size argument,
                   \* the stream its calls went to (DefaultStream if it issued
                   \* none) and whether it threw
    lastCalls,     \* allocator / runtime calls the last operation issued
    pre,           \* the buffer's fields when the last operation started
    maxReq,        \* largest size of a successful resize since the last release
    episode,       \* a shrink then a growing resize, a clear then a resize, or a
                   \* release then a release or the destruction
    failedIn,      \* operations in which an allocate call failed
    badAccess      \* kinds of access to a freed block that have executed

vars == << pc, _size, _capacity, _data, mem, streamQ, allocBytes, deallocCount,
           nextPtr, budget, lastOp, lastCalls, pre, maxReq, episode, failedIn,
           badAccess >>

\* ------------------------------------------------------------- helpers
Min(a, b) == IF a < b THEN a ELSE b
Max(a, b) == IF a < b THEN b ELSE a

RECURSIVE Flatten(_)
Flatten(ss) == IF ss = << >> THEN << >> ELSE Head(ss) \o Flatten(Tail(ss))

RECURSIVE SumOver(_, _)
SumOver(S, f) ==
    IF S = {} THEN 0
    ELSE LET x == CHOOSE y \in S : TRUE IN f[x] + SumOver(S \ {x}, f)

Call(op, ptr, src, bytes, stream) ==
    [op |-> op, ptr |-> ptr, src |-> src, bytes |-> bytes, stream |-> stream]

Fields == [size |-> _size, capacity |-> _capacity, data |-> _data]
NoEpisode == [phase |-> "none", sizeBefore |-> 0, sizeAfter |-> 0, vals |-> << >>]
Op(name, arg, stream, threw) ==
    [name |-> name, arg |-> arg, stream |-> stream, threw |-> threw]

\* --------------------------------------------------- allocator double
Allocated == 1..(nextPtr - 1)
Outstanding == {p \in Allocated : deallocCount[p] = 0}
InUse == SumOver(Outstanding, allocBytes)
CanAllocate(bytes) == InUse + bytes <= budget
\* The allocator's counters after the deallocate calls among `calls`.
FreedBy(calls, p) == Len(SelectSeq(calls, LAMBDA c : c.op = "deallocate" /\ c.ptr = p))
AfterCalls(counts, calls) == [p \in PtrsOrNull |-> counts[p] + FreedBy(calls, p)]
InUseAfter(calls) ==
    SumOver({p \in Allocated : AfterCalls(deallocCount, calls)[p] = 0}, allocBytes)
CanAllocateAfter(calls, bytes) == InUseAfter(calls) + bytes <= budget
\* A block comes back from the allocator uninitialised: each cell holds an
\* indeterminate value, named here by the cell it was found in.  Two cells hold
\* values known to be equal only if they carry the same name, that is, if one
\* was copied from the other.
Fresh(p, n) == [i \in 1..n |-> << p, i >>]
Indeterminate(i) == << NullPtr, i >>

\* ------------------------------------------------------------ streams
AllDrained == \A s \in Streams : streamQ[s] = <<>>
Submit(q, stream, calls) == [q EXCEPT ![stream] = @ \o calls]
Queued(calls) == SelectSeq(calls, LAMBDA c : c.op # "sync")

\* The memory a request leaves behind when the runtime executes it.
Exec(m, o) ==
    CASE o.op = "deallocate" -> [m EXCEPT ![o.ptr] = << >>]
      [] o.op = "memcpy" ->
           LET cnt == o.bytes \div SizeofT
           IN [m EXCEPT ![o.ptr] =
                 [i \in 1..Len(m[o.ptr]) |->
                    IF i <= cnt
                    THEN (IF i <= Len(m[o.src]) THEN m[o.src][i] ELSE Indeterminate(i))
                    ELSE m[o.ptr][i]]]
      [] OTHER -> m

\* Accesses to a block whose free has already executed.
ExecHazards(m, o) ==
    IF o.op = "memcpy"
    THEN (IF Len(m[o.src]) < o.bytes \div SizeofT THEN {"read"} ELSE {})
         \cup (IF Len(m[o.ptr]) < o.bytes \div SizeofT THEN {"write"} ELSE {})
    ELSE {}

\* cudaStreamSynchronize: every request of the queue has executed.
RECURSIVE Drain(_, _)
Drain(m, q) == IF q = << >> THEN m ELSE Drain(Exec(m, Head(q)), Tail(q))

\* ------------------------------------------------- the code's decisions
ByteSize(n) == n * SizeofT

ctor_allocates_above_one(n) == n > 1
ctor_allocates(n) == n > 0

\* The calls of the constructor's body: allocate, then cudaStreamSynchronize.
ctor_calls_no_wait(ptr, n) ==
    << Call("allocate", ptr, NullPtr, ByteSize(n), DefaultStream) >>
ctor_calls(ptr, n) ==
    << Call("allocate", ptr, NullPtr, ByteSize(n), DefaultStream),
       Call("sync", NullPtr, NullPtr, 0, DefaultStream) >>

\* The constructor has no handler around allocate: a failure leaves no object.
ctor_after_throw_alive == "alive"
ctor_after_throw == "ctor_threw"

dtor_frees_never(data) == FALSE
dtor_frees(data) == NullPtr # data

dtor_free_bytes_of_size(size, capacity) == ByteSize(size)
dtor_free_bytes(size, capacity) == ByteSize(capacity)

resize_grows_on_change(capacity, new_size) == capacity # new_size
resize_grows_past_size(capacity, new_size) == _size < new_size
resize_grows_at_equal(capacity, new_size) == capacity <= new_size
resize_grows(capacity, new_size) == capacity < new_size

resize_copies(size) == size > 0

resize_copy_count_short(size) == size - 1
resize_copy_count(size) == size

resize_frees_when_copying(data) == NullPtr # data /\ _size > 0
resize_frees(data) == NullPtr # data

resize_free_bytes(size, capacity) == ByteSize(capacity)

\* The order of the three statements of the growing branch.
resize_order_free_before_copy == << "allocate", "deallocate", "memcpy" >>
resize_order_free_first == << "deallocate", "allocate", "memcpy" >>
resize_order == << "allocate", "memcpy", "deallocate" >>

resize_capacity_short(new_size) == new_size - 1
resize_capacity(new_size) == new_size

resize_size_on_growth(new_size) == IF _capacity < new_size THEN new_size ELSE _size
resize_size(new_size) == new_size

clear_size == 0

release_frees_nonempty(data) == NullPtr # data /\ _size > 0
release_frees_always(data) == TRUE
release_frees(data) == NullPtr # data

release_free_bytes(size, capacity) == ByteSize(capacity)

release_data_stale == _data
release_data == NullPtr

release_capacity_stale == _capacity
release_capacity == 0

\* ----------------------------------------------------------- accessors
\* A position is a block and an element offset into it.
data == _data
size == _size
begin == << _data, 0 >>
end_at_capacity == << _data, _capacity >>
end == << _data, _size >>

\* ------------------------------------------------------------ initial
Init ==
    /\ pc = "init"
    /\ _size = 0
    /\ _capacity = 0
    /\ _data = NullPtr
    /\ mem = [p \in PtrsOrNull |-> <<>>]
    /\ streamQ = [s \in Streams |-> <<>>]
    /\ allocBytes = [p \in PtrsOrNull |-> 0]
    /\ deallocCount = [p \in PtrsOrNull |-> 0]
    /\ nextPtr = 1
    /\ budget \in {Budget, NoLimit}
    /\ lastOp = Op("none", 0, DefaultStream, FALSE)
    /\ lastCalls = <<>>
    /\ pre = [size |-> 0, capacity |-> 0, data |-> NullPtr]
    /\ maxReq = 0
    /\ episode = NoEpisode
    /\ failedIn = {}
    /\ badAccess = {}

\* ----------------------------------------------------------- actions
\* host_buffer(allocator, n)
ctor(n) ==
    /\ pc = "init"
    /\ pre' = Fields
    /\ maxReq' = 0
    /\ episode' = NoEpisode
    /\ _size' = n
    /\ _capacity' = n
    /\ UNCHANGED << budget, deallocCount, badAccess >>
    /\ IF ctor_allocates(n)
       THEN IF CanAllocate(ByteSize(n))
            THEN LET calls == ctor_calls(nextPtr, n)
                     fresh == [mem EXCEPT ![nextPtr] = Fresh(nextPtr, n)]
                     queue == streamQ[DefaultStream] \o Queued(calls)
                     waits == \E i \in 1..Len(calls) : calls[i].op = "sync"
                 IN /\ nextPtr <= MaxAllocs
                    /\ _data' = nextPtr
                    /\ nextPtr' = nextPtr + 1
                    /\ allocBytes' = [allocBytes EXCEPT ![nextPtr] = ByteSize(n)]
                    /\ mem' = IF waits THEN Drain(fresh, queue) ELSE fresh
                    /\ streamQ' = [streamQ EXCEPT ![DefaultStream] =
                                      IF waits THEN << >> ELSE queue]
                    /\ lastCalls' = calls
                    /\ lastOp' = Op("ctor", n, DefaultStream, FALSE)
                    /\ pc' = "alive"
                    /\ UNCHANGED failedIn
            ELSE /\ _data' = NullPtr
                 /\ lastCalls' = <<>>
                 /\ lastOp' = Op("ctor", n, DefaultStream, TRUE)
                 /\ pc' = ctor_after_throw
                 /\ failedIn' = failedIn \cup {"ctor"}
                 /\ UNCHANGED << nextPtr, allocBytes, mem, streamQ >>
       ELSE /\ _data' = NullPtr
            /\ lastCalls' = <<>>
            /\ lastOp' = Op("ctor", n, DefaultStream, FALSE)
            /\ pc' = "alive"
            /\ UNCHANGED << nextPtr, allocBytes, mem, streamQ, failedIn >>

\* ~host_buffer()
dtor ==
    /\ pc = "alive"
    /\ pc' = "destroyed"
    /\ pre' = Fields
    /\ lastOp' = Op("dtor", 0, DefaultStream, FALSE)
    /\ episode' = IF episode.phase \in {"released", "released_again"}
                  THEN [NoEpisode EXCEPT !.phase = "released_destroyed"]
                  ELSE NoEpisode
    /\ IF dtor_frees(_data)
       THEN LET calls == << Call("deallocate", _data, NullPtr,
                                 dtor_free_bytes(_size, _capacity), DefaultStream) >>
            IN /\ deallocCount' = [deallocCount EXCEPT ![_data] = @ + 1]
               /\ streamQ' = Submit(streamQ, DefaultStream, calls)
               /\ lastCalls' = calls
       ELSE /\ lastCalls' = <<>>
            /\ UNCHANGED << deallocCount, streamQ >>
    /\ UNCHANGED << _size, _capacity, _data, mem, allocBytes, nextPtr, budget,
                    maxReq, failedIn, badAccess >>

\* resize( new_size, stream ).  The statements of the growing branch run in
\* resize_order; when allocate throws, the statements before it have run and
\* the ones after it, the two assignments included, have not.
resize(new_size, stream) ==
    /\ pc = "alive"
    /\ pre' = Fields
    /\ UNCHANGED << pc, budget, badAccess >>
    /\ IF resize_grows(_capacity, new_size)
       THEN LET new_data == nextPtr
                stmt(k) ==
                    CASE k = "allocate" ->
                           << Call("allocate", new_data, NullPtr, ByteSize(new_size), stream) >>
                      [] k = "memcpy" ->
                           IF resize_copies(_size)
                           THEN << Call("memcpy", new_data, _data,
                                        ByteSize(resize_copy_count(_size)), stream) >>
                           ELSE << >>
                      [] k = "deallocate" ->
                           IF resize_frees(_data)
                           THEN << Call("deallocate", _data, NullPtr,
                                        resize_free_bytes(_size, _capacity), stream) >>
                           ELSE << >>
                at == CHOOSE i \in 1..Len(resize_order) : resize_order[i] = "allocate"
                before == Flatten([i \in 1..(at - 1) |-> stmt(resize_order[i])])
                calls == Flatten([i \in 1..Len(resize_order) |-> stmt(resize_order[i])])
            IN IF CanAllocateAfter(before, ByteSize(new_size))
               THEN /\ nextPtr <= MaxAllocs
                    /\ nextPtr' = nextPtr + 1
                    /\ allocBytes' = [allocBytes EXCEPT ![new_data] = ByteSize(new_size)]
                    /\ deallocCount' = AfterCalls(deallocCount, calls)
                    /\ mem' = [mem EXCEPT ![new_data] = Fresh(new_data, new_size)]
                    /\ streamQ' = Submit(streamQ, stream, calls)
                    /\ lastCalls' = calls
                    /\ _data' = new_data
                    /\ _capacity' = resize_capacity(new_size)
                    /\ _size' = resize_size(new_size)
                    /\ lastOp' = Op("resize", new_size, stream, FALSE)
                    /\ maxReq' = Max(maxReq, new_size)
                    /\ episode' = IF episode.phase = "shrunk"
                                  THEN [episode EXCEPT !.phase = "grown"]
                                  ELSE NoEpisode
                    /\ UNCHANGED failedIn
               ELSE /\ lastOp' = Op("resize", new_size,
                                     IF before = << >> THEN DefaultStream ELSE stream,
                                     TRUE)
                    /\ deallocCount' = AfterCalls(deallocCount, before)
                    /\ streamQ' = Submit(streamQ, stream, before)
                    /\ lastCalls' = before
                    /\ episode' = NoEpisode
                    /\ failedIn' = failedIn \cup {"resize"}
                    /\ UNCHANGED << _size, _capacity, _data, mem, allocBytes,
                                    nextPtr, maxReq >>
       ELSE /\ _size' = resize_size(new_size)
            /\ lastOp' = Op("resize", new_size, DefaultStream, FALSE)
            /\ lastCalls' = <<>>
            /\ maxReq' = Max(maxReq, new_size)
            /\ episode' =
                  IF episode.phase = "cleared"
                  THEN [episode EXCEPT !.phase = "reused", !.sizeAfter = new_size]
                  ELSE IF new_size < _size /\ _data # NullPtr /\ AllDrained
                       THEN [phase |-> "shrunk", sizeBefore |-> _size,
                             sizeAfter |-> new_size,
                             vals |-> SubSeq(mem[_data], 1, _size)]
                       ELSE NoEpisode
            /\ UNCHANGED << _capacity, _data, mem, streamQ, allocBytes, deallocCount,
                            nextPtr, failedIn >>

\* clear()
clear ==
    /\ pc = "alive"
    /\ pre' = Fields
    /\ _size' = clear_size
    /\ lastOp' = Op("clear", 0, DefaultStream, FALSE)
    /\ lastCalls' = <<>>
    /\ episode' = [phase |-> "cleared", sizeBefore |-> _size, sizeAfter |-> 0,
                   vals |-> << >>]
    /\ UNCHANGED << pc, _capacity, _data, mem, streamQ, allocBytes, deallocCount,
                    nextPtr, budget, maxReq, failedIn, badAccess >>

\* release( stream )
release(stream) ==
    /\ pc = "alive"
    /\ pre' = Fields
    /\ IF release_frees(_data)
       THEN LET calls == << Call("deallocate", _data, NullPtr,
                                 release_free_bytes(_size, _capacity), stream) >>
            IN /\ deallocCount' = [deallocCount EXCEPT ![_data] = @ + 1]
               /\ streamQ' = Submit(streamQ, stream, calls)
               /\ lastCalls' = calls
       ELSE /\ lastCalls' = <<>>
            /\ UNCHANGED << deallocCount, streamQ >>
    /\ _data' = release_data
    /\ _capacity' = release_capacity
    /\ _size' = 0
    /\ lastOp' = Op("release", 0,
                     IF release_frees(_data) THEN stream ELSE DefaultStream, FALSE)
    /\ maxReq' = 0
    /\ episode' = IF episode.phase \in {"released", "released_again"}
                  THEN [NoEpisode EXCEPT !.phase = "released_again"]
                  ELSE [NoEpisode EXCEPT !.phase = "released"]
    /\ UNCHANGED << pc, mem, allocBytes, nextPtr, budget, failedIn, badAccess >>

\* The runtime executes the oldest request of a stream.
StreamExec(s) ==
    /\ streamQ[s] # <<>>
    /\ mem' = Exec(mem, Head(streamQ[s]))
    /\ badAccess' = badAccess \cup ExecHazards(mem, Head(streamQ[s]))
    /\ streamQ' = [streamQ EXCEPT ![s] = Tail(@)]
    /\ UNCHANGED << pc, _size, _capacity, _data, allocBytes, deallocCount, nextPtr,
                    budget, lastOp, lastCalls, pre, maxReq, episode, failedIn >>

Next ==
    \/ \E n \in Sizes : ctor(n)
    \/ dtor
    \/ \E n \in Sizes, s \in Streams : resize(n, s)
    \/ clear
    \/ \E s \in Streams : release(s)
    \/ \E s \in Streams : StreamExec(s)

Spec == Init /\ [][Next]_vars

\* ------------------------------------------------------------ properties
\* A step in which the operation `name` of the buffer ran, as opposed to a step
\* of a stream, which takes a request off a queue.
Ran(name) ==
    /\ \A t \in Streams : Len(streamQ'[t]) >= Len(streamQ[t])
    /\ lastOp'.name = name
Constructed == pc \in {"alive", "destroyed"}
TotalDeallocs == SumOver(PtrsOrNull, deallocCount)
CallsOf(calls, op) == SelectSeq(calls, LAMBDA c : c.op = op)

\* C1: when no allocate call has failed, no block is ever passed to deallocate
\* twice, deallocate is only ever given blocks that allocate returned, and once
\* the buffer is destroyed every block allocate returned has been passed to
\* deallocate exactly once, whether or not release was called before.
C1_EveryBlockFreedOnce ==
    failedIn = {} =>
        /\ \A p \in PtrsOrNull : deallocCount[p] <= 1
        /\ \A p \in PtrsOrNull : deallocCount[p] > 0 => p \in Allocated
        /\ pc = "destroyed" => \A p \in Allocated : deallocCount[p] = 1

\* A destroyed buffer that allocated two blocks without any failure and whose
\* destructor itself returned the last one.
C1_Witness ==
    /\ pc = "destroyed"
    /\ failedIn = {}
    /\ nextPtr = 3
    /\ lastCalls # << >>
    /\ \A p \in Allocated : deallocCount[p] = 1

\* C2: after construction, whatever resize, clear and release calls follow,
\* 0 <= size <= capacity.
C2_SizeWithinCapacity ==
    Constructed => (0 <= _size /\ _size <= _capacity)

\* A live buffer shrunk below its capacity.
C2_Witness ==
    /\ pc = "alive"
    /\ lastOp.name = "resize"
    /\ 0 < _size
    /\ _size < _capacity

\* C3: after construction, whatever resize, clear and release calls follow,
\* the data pointer is non-null exactly when capacity > 0.
C3_DataIffCapacity ==
    Constructed => ((_data # NullPtr) <=> (_capacity > 0))

\* A buffer that held a block and was released.
C3_Witness ==
    /\ pc = "alive"
    /\ lastOp.name = "release"
    /\ pre.capacity > 0
    /\ _data = NullPtr

\* C4: when resize(new_size, stream) returns without an allocator failure,
\* size = new_size and capacity >= new_size, whether or not it reallocated.
C4_ResizePostcondition ==
    (lastOp.name = "resize" /\ ~lastOp.threw) =>
        (_size = lastOp.arg /\ _capacity >= lastOp.arg)

\* A resize within the capacity of a block that an earlier, reallocating resize
\* obtained (the constructor's block, if any, is block 1).
C4_Witness ==
    /\ lastOp.name = "resize"
    /\ ~lastOp.threw
    /\ lastCalls = << >>
    /\ lastOp.arg # pre.size
    /\ _data > 1

\* C5: after a sequence of successful resize calls with no release in between,
\* size is the last requested size, capacity is at least the largest requested
\* size, and no resize of the sequence lowered the capacity.
C5_CapacityNeverShrinks ==
    (lastOp.name = "resize" /\ ~lastOp.threw) =>
        /\ _size = lastOp.arg
        /\ _capacity >= maxReq
        /\ _capacity >= pre.capacity

\* The last resize of a sequence asked for less than an earlier one.
C5_Witness ==
    /\ lastOp.name = "resize"
    /\ ~lastOp.threw
    /\ lastOp.arg < maxReq
    /\ pre.capacity > 0

\* C6 (as stated): after a shrink and then a growing resize beyond the old
\* capacity, once the stream has executed the copy, the first
\* min(size_before_shrink, new_size) elements of the new block hold the values
\* they had before the shrink.
C6_PreservesSizeBeforeShrink ==
    (episode.phase = "grown" /\ AllDrained) =>
        \A i \in 1..Min(episode.sizeBefore, _size) :
            mem[_data][i] = episode.vals[i]

\* C6 (amended): after a shrink and then a growing resize beyond the old
\* capacity, once the stream has executed the copy, the first
\* size_after_shrink elements of the new block (the logical size when the
\* growing resize was called) hold the values they had before the shrink, and
\* capacity is the new size.
C6_PreservesSizeAfterShrink ==
    (episode.phase = "grown" /\ AllDrained) =>
        /\ _capacity >= _size
        /\ _size > pre.capacity
        /\ Len(mem[_data]) = _capacity
        /\ \A i \in 1..episode.sizeAfter :
              mem[_data][i] = episode.vals[i]

\* Two or more elements shrunk to a non-empty prefix, grown beyond the old
\* capacity, and the copy has executed.
C6_Witness ==
    /\ episode.phase = "grown"
    /\ AllDrained
    /\ episode.sizeBefore >= 2
    /\ episode.sizeAfter >= 1
    /\ _size > episode.sizeBefore

\* C7: clear() sets size to 0, leaves capacity, the data pointer and every
\* block's contents as they were and issues no call; a resize that follows it
\* with a size within the capacity held before the clear issues no allocate and
\* no deallocate and keeps the block.
C7_ClearKeepsBlock ==
    [][ /\ Ran("clear") =>
             /\ _size' = 0
             /\ _capacity' = _capacity
             /\ _data' = _data
             /\ mem' = mem
             /\ lastCalls' = << >>
             /\ streamQ' = streamQ
             /\ nextPtr' = nextPtr
             /\ deallocCount' = deallocCount
        /\ (lastOp.name = "clear" /\ Ran("resize") /\ lastOp'.arg <= _capacity) =>
             /\ lastCalls' = << >>
             /\ streamQ' = streamQ
             /\ nextPtr' = nextPtr
             /\ deallocCount' = deallocCount
             /\ _data' = _data
             /\ _capacity' = _capacity ]_vars

\* A non-empty buffer was cleared and then resized to a positive size within
\* the capacity it had before the clear.
C7_Witness ==
    /\ episode.phase = "reused"
    /\ episode.sizeBefore > 0
    /\ episode.sizeAfter > 0
    /\ episode.sizeAfter <= pre.capacity
    /\ lastOp.name = "resize"

\* C8: release(stream) issues exactly one deallocate, of the block held and its
\* capacity in bytes, on the stream given, when capacity > 0 and no call when
\* capacity = 0; either way data is null, capacity is 0 and size is 0 after it.
C8_ReleaseEmpties ==
    lastOp.name = "release" =>
        /\ _data = NullPtr
        /\ _capacity = 0
        /\ _size = 0
        /\ pre.capacity > 0 =>
             lastCalls = << Call("deallocate", pre.data, NullPtr,
                                 pre.capacity * SizeofT, lastOp.stream) >>
        /\ pre.capacity = 0 => lastCalls = << >>

\* A block whose logical size had been lowered to 0 was released on a stream
\* other than the default one.
C8_Witness ==
    /\ lastOp.name = "release"
    /\ lastOp.stream # DefaultStream
    /\ pre.capacity > 0
    /\ pre.size = 0
    /\ Len(lastCalls) = 1

\* C9: a construction with initial size n that succeeds leaves size = capacity
\* = n; for n > 0 it issues exactly one allocate, of n * sizeof(T) bytes on the
\* default stream, and data is the non-null block returned; for n = 0 it issues
\* no call and data is null.
C9_Construction ==
    (lastOp.name = "ctor" /\ ~lastOp.threw) =>
        /\ _size = lastOp.arg
        /\ _capacity = lastOp.arg
        /\ lastOp.arg > 0 =>
             /\ _data # NullPtr
             /\ CallsOf(lastCalls, "allocate") =
                   << Call("allocate", _data, NullPtr, lastOp.arg * SizeofT,
                           DefaultStream) >>
             /\ CallsOf(lastCalls, "deallocate") = << >>
        /\ lastOp.arg = 0 => (_data = NullPtr /\ lastCalls = << >>)

\* A buffer just constructed with one element.
C9_Witness ==
    /\ pc = "alive"
    /\ lastOp.name = "ctor"
    /\ lastOp.arg = 1
    /\ _data # NullPtr

\* C10: once the bounded allocator has failed a growing resize, at every later
\* point of the run, the destruction included, no block has been passed to
\* deallocate twice, only blocks that allocate returned have been passed to it,
\* and the deallocate calls do not outnumber the successful allocate calls.
C10_NoDoubleFreeAfterFailure ==
    "resize" \in failedIn =>
        /\ \A p \in PtrsOrNull : deallocCount[p] <= 1
        /\ \A p \in PtrsOrNull : deallocCount[p] > 0 => p \in Allocated
        /\ TotalDeallocs <= Cardinality(Allocated)

\* A growing resize of a non-empty buffer failed on the budget; the buffer was
\* then destroyed and its destructor returned the block it still held.
C10_Witness ==
    /\ "resize" \in failedIn
    /\ budget = Budget
    /\ pc = "destroyed"
    /\ pre.size > 0
    /\ CallsOf(lastCalls, "deallocate") # << >>
    /\ TotalDeallocs = Cardinality(Allocated)

\* C11: a construction with n > 0 does not partially succeed.  If allocate
\* fails the failure leaves the constructor (no object exists, no operation and
\* no destructor ever runs on it) and no deallocate is ever issued; no
\* constructed buffer has size > 0 and a null data pointer; a construction that
\* returns holds a block of n * sizeof(T) bytes with n cells.
C11_ConstructionAllOrNothing ==
    /\ (lastOp.name = "ctor" /\ lastOp.threw) =>
          /\ pc = "ctor_threw"
          /\ lastOp.arg > 0
          /\ lastCalls = << >>
          /\ nextPtr = 1
          /\ TotalDeallocs = 0
          /\ AllDrained
    /\ pc = "ctor_threw" => (lastOp.name = "ctor" /\ lastOp.threw)
    /\ Constructed => ~(_size > 0 /\ _data = NullPtr)
    /\ (lastOp.name = "ctor" /\ ~lastOp.threw /\ lastOp.arg > 0) =>
          /\ _data # NullPtr
          /\ allocBytes[_data] = lastOp.arg * SizeofT
          /\ Len(mem[_data]) = lastOp.arg

\* The bounded allocator refused the constructor's request.
C11_Witness ==
    /\ pc = "ctor_threw"
    /\ budget = Budget
    /\ lastOp.arg * SizeofT > Budget
    /\ _data = NullPtr

\* C12: a resize(new_size, stream) with new_size <= capacity (a shrink, the
\* same size, growth within spare capacity, or 0 on an empty buffer) issues no
\* allocate, no copy and no deallocate, cannot fail, and leaves capacity and
\* the data pointer as they were; size becomes new_size.
C12_ResizeWithinCapacity ==
    (lastOp.name = "resize" /\ lastOp.arg <= pre.capacity) =>
        /\ ~lastOp.threw
        /\ lastCalls = << >>
        /\ _capacity = pre.capacity
        /\ _data = pre.data
        /\ _size = lastOp.arg

\* A resize that grew the size up to exactly the capacity already held.
C12_Witness ==
    /\ lastOp.name = "resize"
    /\ pre.size < lastOp.arg
    /\ lastOp.arg = pre.capacity
    /\ _data # NullPtr

\* C13: a resize(new_size, stream) with new_size > capacity that succeeds
\* issues, all on the caller's stream and in this order: one allocate of
\* exactly new_size * sizeof(T) bytes; a copy of the first `size` elements of
\* the old block into the new one exactly when the old size > 0; a deallocate of
\* the old block exactly when there is one; and capacity is then new_size.  As
\* each stream executes its requests in order, no copy ever reads a block whose
\* free has already executed.
C13_GrowSubmitsInOrder ==
    /\ (lastOp.name = "resize" /\ ~lastOp.threw /\ lastOp.arg > pre.capacity) =>
          /\ lastCalls =
                << Call("allocate", _data, NullPtr, lastOp.arg * SizeofT, lastOp.stream) >>
                \o (IF pre.size > 0
                    THEN << Call("memcpy", _data, pre.data, pre.size * SizeofT,
                                 lastOp.stream) >>
                    ELSE << >>)
                \o (IF pre.data # NullPtr
                    THEN << Call("deallocate", pre.data, NullPtr,
                                 pre.capacity * SizeofT, lastOp.stream) >>
                    ELSE << >>)
          /\ _data \notin {NullPtr, pre.data}
          /\ _capacity = lastOp.arg
    /\ "read" \notin badAccess

\* A growing resize of a non-empty buffer on a stream of the caller, whose
\* allocate, copy and free have all executed.
C13_Witness ==
    /\ lastOp.name = "resize"
    /\ lastOp.stream # DefaultStream
    /\ Len(lastCalls) = 3
    /\ pre.size > 0
    /\ AllDrained
    /\ mem[pre.data] = << >>
    /\ mem[_data][1] = << pre.data, 1 >>

\* C14: the construction with a nonzero size is the only operation that waits
\* on a stream: it submits its allocate on the default stream, synchronises
\* with it and returns with that stream drained.  resize, release, clear and
\* the destructor never synchronise: what resize and release issue is appended
\* to the queue of the stream they were given, and what the destructor issues
\* to the default stream's, still to be executed when they return.
NoWait(calls) == CallsOf(calls, "sync") = << >>
OnStream(calls, s) == \A i \in 1..Len(calls) : calls[i].stream = s
C14_OnlyConstructionWaits ==
    [][ /\ Ran("ctor") =>
             /\ (lastOp'.arg > 0 /\ pc' = "alive") =>
                   /\ lastCalls' =
                         << Call("allocate", _data', NullPtr, lastOp'.arg * SizeofT,
                                 DefaultStream),
                            Call("sync", NullPtr, NullPtr, 0, DefaultStream) >>
                   /\ streamQ'[DefaultStream] = << >>
             /\ (lastOp'.arg = 0 \/ pc' # "alive") => lastCalls' = << >>
        /\ (Ran("resize") \/ Ran("release")) =>
             /\ NoWait(lastCalls')
             /\ OnStream(lastCalls', lastOp'.stream)
             /\ streamQ' = Submit(streamQ, lastOp'.stream, lastCalls')
        /\ Ran("clear") => (lastCalls' = << >> /\ streamQ' = streamQ)
        /\ Ran("dtor") =>
             /\ NoWait(lastCalls')
             /\ OnStream(lastCalls', DefaultStream)
             /\ streamQ' = Submit(streamQ, DefaultStream, lastCalls') ]_vars

\* A growing resize of a non-empty buffer has returned and its allocate, copy
\* and free are all still queued on the caller's stream.
C14_Witness ==
    /\ pc = "alive"
    /\ lastOp.name = "resize"
    /\ lastOp.stream # DefaultStream
    /\ Len(lastCalls) = 3
    /\ streamQ[lastOp.stream] = lastCalls
    /\ streamQ[DefaultStream] = << >>

\* C15: every deallocate call the buffer issues, from resize, release or the
\* destructor, names a block that an earlier allocate call returned (never the
\* block allocated by the same call) together with the byte size that allocate
\* call asked for, whatever shrinks or clear() calls changed size in between.
IsMatchedFree(c, calls) ==
    /\ c.ptr \in Allocated
    /\ c.bytes = allocBytes[c.ptr]
    /\ \A j \in 1..Len(calls) : calls[j].op = "allocate" => calls[j].ptr # c.ptr
C15_DeallocateMatchesAllocate ==
    /\ \A i \in 1..Len(lastCalls) :
          lastCalls[i].op = "deallocate" => IsMatchedFree(lastCalls[i], lastCalls)
    /\ \A s \in Streams : \A i \in 1..Len(streamQ[s]) :
          streamQ[s][i].op = "deallocate" => IsMatchedFree(streamQ[s][i], << >>)

\* The destructor returned a block whose logical size had been lowered below
\* its capacity.
C15_Witness ==
    /\ pc = "destroyed"
    /\ 0 < pre.size
    /\ pre.size < pre.capacity
    /\ Len(lastCalls) = 1
    /\ lastCalls[1].bytes = pre.capacity * SizeofT

\* C16: in every state of a constructed buffer begin() is the position data()
\* points at and end() lies size() elements after it in the same block, so the
\* traversed range has exactly size() elements and stays inside the block
\* whatever the capacity; it is empty right after clear() and release().
Traversed == {<< begin[1], k >> : k \in begin[2]..(end[2] - 1)}
C16_RangeIsSize ==
    Constructed =>
        /\ begin = << data, 0 >>
        /\ end[1] = begin[1]
        /\ end[2] - begin[2] = size
        /\ Cardinality(Traversed) = size
        /\ \A pos \in Traversed : pos[2] < _capacity
        /\ lastOp.name \in {"clear", "release"} => end = begin
        /\ lastOp.name = "release" => begin = << NullPtr, 0 >>

\* A buffer shrunk below its capacity: the range is shorter than the block.
C16_Witness ==
    /\ pc = "alive"
    /\ 0 < size
    /\ size < _capacity
    /\ Cardinality(Traversed) = size
    /\ lastOp.name = "resize"
    /\ pre.size = 0

\* C17: when allocate fails inside a growing resize, size, capacity and the
\* data pointer are what they were before the call and the call has issued no
\* copy and no deallocate, so the old block is still outstanding; by the time
\* the buffer is destroyed every block has been passed to deallocate exactly
\* once.
C17_FailedResizeChangesNothing ==
    /\ (lastOp.name = "resize" /\ lastOp.threw) =>
          /\ lastOp.arg > pre.capacity
          /\ Fields = pre
          /\ lastCalls = << >>
          /\ pre.data # NullPtr =>
                (deallocCount[pre.data] = 0 /\ Outstanding = {pre.data})
    /\ ("resize" \in failedIn /\ pc = "destroyed") =>
          \A p \in Allocated : deallocCount[p] = 1

\* The bounded allocator refused the growing resize of a non-empty buffer that
\* still holds its block.
C17_Witness ==
    /\ pc = "alive"
    /\ lastOp.name = "resize"
    /\ lastOp.threw
    /\ pre.size > 0
    /\ _data = pre.data
    /\ Len(mem[_data]) = _capacity

\* C18: between the operations of a live buffer, the blocks it has allocated
\* and not yet passed to deallocate are exactly {data}, of capacity * sizeof(T)
\* bytes, when capacity > 0 and none when capacity = 0: never more than one.
\* None is left once the buffer is destroyed or its construction has failed.
C18_OneOutstandingBlock ==
    /\ pc = "alive" =>
          /\ Outstanding = (IF _capacity > 0 THEN {_data} ELSE {})
          /\ _capacity > 0 => allocBytes[_data] = _capacity * SizeofT
          /\ Cardinality(Outstanding) <= 1
    /\ pc \in {"init", "destroyed", "ctor_threw"} => Outstanding = {}

\* A live buffer on its second block, which it obtained while its size was 0,
\* the first block having been returned.
C18_Witness ==
    /\ pc = "alive"
    /\ lastOp.name = "resize"
    /\ pre.size = 0
    /\ pre.data = 1
    /\ _data = 2
    /\ Outstanding = {2}
    /\ deallocCount[1] = 1

\* C19: release is idempotent: a release(stream) directly after a release
\* issues no deallocate, submits nothing and leaves data null, capacity 0 and
\* size 0 as the first one did; a destruction directly after a release issues
\* no deallocate either.
C19_ReleaseIdempotent ==
    [][ /\ (lastOp.name = "release" /\ Ran("release")) =>
             /\ lastCalls' = << >>
             /\ deallocCount' = deallocCount
             /\ streamQ' = streamQ
             /\ Fields' = Fields
             /\ Fields' = [size |-> 0, capacity |-> 0, data |-> NullPtr]
        /\ (lastOp.name = "release" /\ Ran("dtor")) =>
             /\ lastCalls' = << >>
             /\ deallocCount' = deallocCount
             /\ streamQ' = streamQ ]_vars

\* A buffer that held a block was released twice in a row.
C19_Witness ==
    /\ episode.phase = "released_again"
    /\ lastOp.name = "release"
    /\ nextPtr > 1
    /\ TotalDeallocs = Cardinality(Allocated)
====
